---- MODULE Spec2Model ----
\* Verification model of the quota controller (pkg/controller/quota/quota.go)
\* and of the compute-class resolver (resolveComputeClasses / resolveComputeClass).
EXTENDS Integers, Sequences, FiniteSets, TLC

VARIABLES
    project,            \* the ProjectInstance of the app's namespace (its annotations)
    app,                \* the AppInstance: Spec.* and Status.AppSpec / Status.Scheduling
    quota,              \* the AppInstance's AppInstanceConditionQuota condition
    quotaRequest,       \* the stored QuotaRequestInstance of the app, or NoQuotaRequest
    cluster,            \* compute classes of the cluster and the project default class
    cfg,                \* apiv1.Config (WorkloadMemoryDefault)
    resolvedOfferings,  \* appInstance.Status.ResolvedOfferings.Containers
    last,               \* what the last step did (observation only)
    runs                \* resolver runs that succeeded in a row on the present input

vars == <<project, app, quota, quotaRequest, cluster, cfg, resolvedOfferings, last, runs>>

-----------------------------------------------------------------------------
\* Bounds of the model.

\* largest container scale drawn for the aggregation inputs
MaxScale == 2
\* longest list of volume bindings drawn for the aggregation inputs
MaxBindings == 2
\* resolver runs counted in a row
MaxRuns == 2

-----------------------------------------------------------------------------
\* Go values.

\* a nil pointer / an unset optional, and a set one
Nil == <<>>
Some(v) == <<v>>

\* a nil error
NoErr == "nil"
NotFoundErr == "not found"
TransportErr == "connection refused"
ParseErr == "quantities must match the regular expression"

IsNotFound(err) == err = NotFoundErr

EmptyMap == [x \in {} |-> x]

RECURSIVE SumFn(_)
SumFn(f) ==
    IF DOMAIN f = {} THEN 0
    ELSE LET k == CHOOSE x \in DOMAIN f : TRUE
         IN f[k] + SumFn([x \in DOMAIN f \ {k} |-> f[x]])

-----------------------------------------------------------------------------
\* Condition reporter on the AppInstance (condition.Setter).

NoCondition == [state |-> "none", message |-> ""]
StatusSuccess == [state |-> "success", message |-> ""]
StatusError(err) == [state |-> "error", message |-> err]
StatusUnknown(msg) == [state |-> "unknown", message |-> msg]

-----------------------------------------------------------------------------
\* Quota request objects.

ZeroResources ==
    [containers |-> 0, jobs |-> 0, volumes |-> 0, images |-> 0, secrets |-> 0,
     volumeStorage |-> 0, cpu |-> 0, memory |-> 0]

\* QuotaRequestResources.Equals: structural equality of the two vectors
Equals(a, b) == a = b

\* the condition of a QuotaRequest: pending, success or error(message)
ZeroCondition == [success |-> FALSE, error |-> FALSE, message |-> ""]

NoQuotaRequest == <<>>

\* the zero value of adminv1.QuotaRequestInstance
ZeroQuotaRequest ==
    [spec |-> ZeroResources, allocated |-> ZeroResources, condition |-> ZeroCondition]

\* req.Client.Get of the QuotaRequest: the outcome of the lookup, fault being an
\* error of the client other than NotFound
GetQuotaRequest(fault) ==
    IF fault # NoErr THEN [err |-> fault, obj |-> ZeroQuotaRequest]
    ELSE IF quotaRequest = NoQuotaRequest
         THEN [err |-> NotFoundErr, obj |-> ZeroQuotaRequest]
         ELSE [err |-> NoErr, obj |-> quotaRequest[1]]

\* req.Client.Get of the project
GetProject(fault) == [err |-> fault, obj |-> project]

-----------------------------------------------------------------------------
\* isEnforced

\* mutant: any project counts as enforcing quota
isEnforced_Always(proj) ==
    IF proj.err # NoErr THEN [enforced |-> FALSE, err |-> proj.err]
    ELSE [enforced |-> TRUE, err |-> NoErr]

isEnforced(proj) ==
    IF proj.err # NoErr THEN [enforced |-> FALSE, err |-> proj.err]
    ELSE [enforced |-> proj.obj.enforcedQuota = "true", err |-> NoErr]

-----------------------------------------------------------------------------
\* WaitForAllocation

\* mutant: the third scenario never reports success
allocationStatus_NeverSuccess(q, get) ==
    LET qr == get.obj
        cond == qr.condition
    IN  IF cond.error
        THEN StatusError("quota allocation failed: " \o cond.message)
        ELSE IF get.err # NoErr \/ ~Equals(qr.spec, qr.allocated)
        THEN StatusUnknown("waiting for quota allocation")
        ELSE q

\* mutant: the allocation is compared before the authority's error is read
allocationStatus_EqualsFirst(q, get) ==
    LET qr == get.obj
        cond == qr.condition
    IN  IF get.err # NoErr \/ ~Equals(qr.spec, qr.allocated)
        THEN StatusUnknown("waiting for quota allocation")
        ELSE IF cond.error
        THEN StatusError("quota allocation failed: " \o cond.message)
        ELSE IF cond.success
        THEN StatusSuccess
        ELSE q

\* the three scenarios of the comment at lines 46-53
allocationStatus(q, get) ==
    LET qr == get.obj
        cond == qr.condition
    IN  IF cond.error
        THEN StatusError("quota allocation failed: " \o cond.message)
        ELSE IF get.err # NoErr \/ ~Equals(qr.spec, qr.allocated)
        THEN StatusUnknown("waiting for quota allocation")
        ELSE IF cond.success
        THEN StatusSuccess
        ELSE q

\* mutant: an error of the request lookup is reported on the quota condition
WaitForAllocation_GetErrorReported(q, proj, get) ==
    LET e == isEnforced(proj)
    IN  IF e.err # NoErr
        THEN [quota |-> StatusError(e.err), err |-> e.err, fetched |-> FALSE]
        ELSE IF ~e.enforced
        THEN [quota |-> StatusSuccess, err |-> NoErr, fetched |-> FALSE]
        ELSE IF get.err # NoErr /\ ~IsNotFound(get.err)
        THEN [quota |-> StatusError(get.err), err |-> get.err, fetched |-> TRUE]
        ELSE [quota |-> allocationStatus(q, get), err |-> NoErr, fetched |-> TRUE]

\* mutant: a NotFound of the request lookup is returned like any other error
WaitForAllocation_NotFoundFails(q, proj, get) ==
    LET e == isEnforced(proj)
    IN  IF e.err # NoErr
        THEN [quota |-> StatusError(e.err), err |-> e.err, fetched |-> FALSE]
        ELSE IF ~e.enforced
        THEN [quota |-> StatusSuccess, err |-> NoErr, fetched |-> FALSE]
        ELSE IF get.err # NoErr
        THEN [quota |-> q, err |-> get.err, fetched |-> TRUE]
        ELSE [quota |-> allocationStatus(q, get), err |-> NoErr, fetched |-> TRUE]

\* the handler: q is the quota condition before the call, proj and get the
\* outcomes of the two lookups (get is used only when the handler makes it)
WaitForAllocation(q, proj, get) ==
    LET e == isEnforced(proj)
    IN  IF e.err # NoErr
        THEN [quota |-> StatusError(e.err), err |-> e.err, fetched |-> FALSE]
        ELSE IF ~e.enforced
        THEN [quota |-> StatusSuccess, err |-> NoErr, fetched |-> FALSE]
        ELSE IF get.err # NoErr /\ ~IsNotFound(get.err)
        THEN [quota |-> q, err |-> get.err, fetched |-> TRUE]
        ELSE [quota |-> allocationStatus(q, get), err |-> NoErr, fetched |-> TRUE]

-----------------------------------------------------------------------------
\* Quota aggregation (EnsureQuotaRequest and its helpers).

\* resource.ParseQuantity on a volume size: the quantity in Gi, or a parse error
ParseQuantity(size) ==
    CASE size = "1Gi" -> [err |-> NoErr, value |-> 1]
      [] size = "2Gi" -> [err |-> NoErr, value |-> 2]
      [] size = "4Gi" -> [err |-> NoErr, value |-> 4]
      [] OTHER -> [err |-> ParseErr, value |-> 0]

replicas(s) == IF s # Nil THEN s[1] ELSE 1

\* mutant: each sidecar is counted as a container of its own
addContainers_CountsSidecars(containers) ==
    SumFn([name \in DOMAIN containers |->
        replicas(containers[name].scale)
        + SumFn([sc \in DOMAIN containers[name].sidecars |->
                    replicas(containers[name].sidecars[sc].scale)])])

addContainers(containers) ==
    SumFn([name \in DOMAIN containers |-> replicas(containers[name].scale)])

\* requirements.Requests[key] of a ResourceRequirements (zero when unset)
Requests(requirements, key) ==
    IF key \in DOMAIN requirements THEN requirements[key] ELSE 0

\* the requirements addCompute uses for a workload name (lines 119-124)
requirementsFor(name, scheduling) ==
    IF name \in DOMAIN scheduling THEN scheduling[name]
    ELSE IF "" \in DOMAIN scheduling THEN scheduling[""]
    ELSE EmptyMap

\* the loop of lines 127-130: n additions of the quantity q
AddTimes(n, q) == IF n > 0 THEN n * q ELSE 0

\* what addCompute adds to the quantity named key (cpu or memory)
RECURSIVE addCompute(_, _, _)
addCompute(containers, appInstance, key) ==
    SumFn([name \in DOMAIN containers |->
        AddTimes(replicas(containers[name].scale),
                 Requests(requirementsFor(name, appInstance.scheduling), key))
        + addCompute(containers[name].sidecars, appInstance, key)])

RECURSIVE boundVolumeSize(_, _)
boundVolumeSize(name, bindings) ==
    IF bindings = <<>> THEN [bound |-> FALSE, size |-> "0"]
    ELSE IF Head(bindings).target = name /\ Head(bindings).volume = ""
         THEN [bound |-> TRUE, size |-> Head(bindings).size]
         ELSE boundVolumeSize(name, Tail(bindings))

RECURSIVE boundSecret(_, _)
boundSecret(name, bindings) ==
    IF bindings = <<>> THEN FALSE
    ELSE IF Head(bindings).target = name /\ Head(bindings).secret = ""
         THEN TRUE
         ELSE boundSecret(name, Tail(bindings))

\* mutant: a binding without a size falls back to the volume's own size
volumeSize_FallsBack(name, appInstance) ==
    LET b == boundVolumeSize(name, appInstance.volumeBindings)
    IN  IF b.bound /\ b.size # "" THEN b.size ELSE appInstance.volumes[name].size

\* the size addStorage uses for a declared volume (lines 144-147)
volumeSize(name, appInstance) ==
    LET b == boundVolumeSize(name, appInstance.volumeBindings)
    IN  IF b.bound THEN b.size ELSE appInstance.volumes[name].size

\* mutant: a size that does not parse is skipped like an empty one
volumeStorage_SkipsUnparseable(name, appInstance) ==
    LET size == volumeSize(name, appInstance)
    IN  IF size = "" \/ size = "0" \/ ParseQuantity(size).err # NoErr
        THEN [err |-> NoErr, value |-> 0]
        ELSE ParseQuantity(size)

\* what one volume adds to VolumeStorage (lines 149-158)
volumeStorage(name, appInstance) ==
    LET size == volumeSize(name, appInstance)
    IN  IF size = "" \/ size = "0" THEN [err |-> NoErr, value |-> 0]
        ELSE ParseQuantity(size)

\* addStorage: the error of the first volume that does not parse, else the
\* storage sum and the number of secrets that are not bound
addStorage(appInstance) ==
    LET each == [name \in DOMAIN appInstance.volumes |-> volumeStorage(name, appInstance)]
        bad == {name \in DOMAIN each : each[name].err # NoErr}
    IN  IF bad # {}
        THEN [err |-> each[CHOOSE name \in bad : TRUE].err, volumeStorage |-> 0, secrets |-> 0]
        ELSE [err |-> NoErr,
              volumeStorage |-> SumFn([name \in DOMAIN each |-> each[name].value]),
              secrets |-> Cardinality({name \in appInstance.secrets :
                                          ~boundSecret(name, appInstance.secretBindings)})]

\* mutant: the jobs are added to the compute sums like the containers
EnsureQuotaRequest_JobsCompute(q, proj, appInstance) ==
    LET e == isEnforced(proj)
        storage == addStorage(appInstance)
        resources ==
            [containers |-> addContainers(appInstance.containers),
             jobs |-> Cardinality(DOMAIN appInstance.jobs),
             volumes |-> Cardinality(DOMAIN appInstance.volumes),
             images |-> Cardinality(appInstance.images),
             secrets |-> storage.secrets,
             volumeStorage |-> storage.volumeStorage,
             cpu |-> addCompute(appInstance.containers, appInstance, "cpu")
                     + addCompute(appInstance.jobs, appInstance, "cpu"),
             memory |-> addCompute(appInstance.containers, appInstance, "memory")
                        + addCompute(appInstance.jobs, appInstance, "memory")]
    IN  IF e.err # NoErr \/ ~e.enforced
        THEN [quota |-> q, err |-> e.err, objects |-> <<>>]
        ELSE IF storage.err # NoErr
        THEN [quota |-> StatusError(storage.err), err |-> storage.err, objects |-> <<>>]
        ELSE [quota |-> q, err |-> NoErr, objects |-> <<resources>>]

\* the handler: q is the quota condition before the call; objects are the
\* desired objects handed to resp.Objects
EnsureQuotaRequest(q, proj, appInstance) ==
    LET e == isEnforced(proj)
        storage == addStorage(appInstance)
        resources ==
            [containers |-> addContainers(appInstance.containers),
             jobs |-> Cardinality(DOMAIN appInstance.jobs),
             volumes |-> Cardinality(DOMAIN appInstance.volumes),
             images |-> Cardinality(appInstance.images),
             secrets |-> storage.secrets,
             volumeStorage |-> storage.volumeStorage,
             cpu |-> addCompute(appInstance.containers, appInstance, "cpu"),
             memory |-> addCompute(appInstance.containers, appInstance, "memory")]
    IN  IF e.err # NoErr \/ ~e.enforced
        THEN [quota |-> q, err |-> e.err, objects |-> <<>>]
        ELSE IF storage.err # NoErr
        THEN [quota |-> StatusError(storage.err), err |-> storage.err, objects |-> <<>>]
        ELSE [quota |-> q, err |-> NoErr, objects |-> <<resources>>]

\* the store after the desired QuotaRequest is applied: created with an empty
\* status, or its spec replaced and its status kept
Apply(objects) ==
    IF objects = <<>> THEN quotaRequest
    ELSE IF quotaRequest = NoQuotaRequest
         THEN Some([ZeroQuotaRequest EXCEPT !.spec = objects[1]])
         ELSE Some([quotaRequest[1] EXCEPT !.spec = objects[1]])

-----------------------------------------------------------------------------
\* Compute-class lookups and the memory parser used by the resolver.

\* m with the entry for key k set to v (a Go map assignment)
Put(m, k, v) == [x \in DOMAIN m \cup {k} |-> IF x = k THEN v ELSE m[x]]

\* computeclasses.ParseComputeClassMemoryInternal: the default quantity of the
\* class's memory in Mi, or a parse error
ParseComputeClassMemoryInternal(memory) ==
    CASE memory = "512Mi" -> [err |-> NoErr, def |-> 512]
      [] memory = "1Gi" -> [err |-> NoErr, def |-> 1024]
      [] OTHER -> [err |-> ParseErr, def |-> 0]

\* adminv1.GetDefaultComputeClass: the name of the project's default class,
\* "" when the project has none
GetDefaultComputeClass(fault) ==
    IF fault # NoErr THEN [err |-> fault, name |-> ""]
    ELSE [err |-> NoErr, name |-> cluster.defaultCC]

\* computeclasses.GetAsProjectComputeClassInstance: the class of that name,
\* or nil with a NotFound error
GetAsProjectComputeClassInstance(name, fault) ==
    IF fault # NoErr THEN [err |-> fault, cc |-> Nil]
    ELSE IF name \in DOMAIN cluster.classes
         THEN [err |-> NoErr, cc |-> Some(cluster.classes[name])]
         ELSE [err |-> NotFoundErr, cc |-> Nil]

\* the class name a workload asks for: its own override, else the override for
\* all workloads, else the project default
classNameForWorkload(computeClasses, name) ==
    IF name \in DOMAIN computeClasses THEN computeClasses[name]
    ELSE IF "" \in DOMAIN computeClasses THEN computeClasses[""]
    ELSE cluster.defaultCC

\* computeclasses.GetClassForWorkload: the class of the workload, nil when no
\* class resolves for it
GetClassForWorkload(computeClasses, container, name, fault) ==
    LET ccName == classNameForWorkload(computeClasses, name)
        got == GetAsProjectComputeClassInstance(ccName, fault)
    IN  IF ccName = "" THEN [err |-> fault, cc |-> Nil]
        ELSE IF IsNotFound(got.err) THEN [err |-> NoErr, cc |-> Nil]
        ELSE got

-----------------------------------------------------------------------------
\* resolveComputeClass

\* mutant: the image's memory is preferred to the override for all workloads
resolveMemory_ImageFirst(appInstance, configDefault, cc, name, container) ==
    IF name \in DOMAIN appInstance.memory
    THEN [err |-> NoErr, memory |-> Some(appInstance.memory[name])]
    ELSE IF container.memory # Nil
    THEN [err |-> NoErr, memory |-> container.memory]
    ELSE IF "" \in DOMAIN appInstance.memory
    THEN [err |-> NoErr, memory |-> Some(appInstance.memory[""])]
    ELSE IF cc # Nil
    THEN LET parsedMemory == ParseComputeClassMemoryInternal(cc[1].memory)
         IN  IF parsedMemory.err # NoErr
             THEN [err |-> parsedMemory.err, memory |-> Nil]
             ELSE [err |-> NoErr, memory |-> Some(parsedMemory.def)]
    ELSE [err |-> NoErr, memory |-> configDefault]

\* the memory request of a workload (lines 95-116): cc is the class selected
\* for it or nil
resolveMemory(appInstance, configDefault, cc, name, container) ==
    IF name \in DOMAIN appInstance.memory
    THEN [err |-> NoErr, memory |-> Some(appInstance.memory[name])]
    ELSE IF "" \in DOMAIN appInstance.memory
    THEN [err |-> NoErr, memory |-> Some(appInstance.memory[""])]
    ELSE IF container.memory # Nil
    THEN [err |-> NoErr, memory |-> container.memory]
    ELSE IF cc # Nil
    THEN LET parsedMemory == ParseComputeClassMemoryInternal(cc[1].memory)
         IN  IF parsedMemory.err # NoErr
             THEN [err |-> parsedMemory.err, memory |-> Nil]
             ELSE [err |-> NoErr, memory |-> Some(parsedMemory.def)]
    ELSE [err |-> NoErr, memory |-> configDefault]

\* one iteration of the loop of resolveComputeClass (lines 77-122): the
\* offering of the workload called name
resolveWorkload(appInstance, configDefault, defaultCC, defaultCCName, name, container, fault) ==
    LET got == GetClassForWorkload(appInstance.computeClasses, container, name, fault)
        cc == IF got.cc = Nil THEN defaultCC ELSE got.cc
        ccName == IF cc # Nil THEN cc[1].name ELSE defaultCCName
        cpuScaler == IF cc # Nil THEN Some(cc[1].cpuScaler) ELSE Nil
        mem == resolveMemory(appInstance, configDefault, cc, name, container)
    IN  IF got.err # NoErr THEN [err |-> got.err, offering |-> Nil]
        ELSE IF mem.err # NoErr THEN [err |-> mem.err, offering |-> Nil]
        ELSE [err |-> NoErr,
              offering |-> Some([class |-> ccName, memory |-> mem.memory,
                                 cpuScaler |-> cpuScaler])]

\* lines 118-130: the offering stored under the workload's name and under the
\* name of each of its sidecars
storeOffering(offerings, name, container, offering) ==
    [x \in DOMAIN offerings \cup {name} \cup DOMAIN container.sidecars |->
        IF x = name \/ x \in DOMAIN container.sidecars THEN offering
        ELSE offerings[x]]

\* the loop of resolveComputeClass over containers, visited in the given order;
\* failing is the set of workloads whose class lookup fails
RECURSIVE resolveComputeClass(_, _, _, _, _, _, _, _)
resolveComputeClass(offerings, appInstance, configDefault, defaultCC, defaultCCName, containers, order, failing) ==
    IF order = <<>> THEN [err |-> NoErr, offerings |-> offerings]
    ELSE LET name == Head(order)
             r == resolveWorkload(appInstance, configDefault, defaultCC, defaultCCName,
                                  name, containers[name],
                                  IF name \in failing THEN TransportErr ELSE NoErr)
         IN  IF r.err # NoErr THEN [err |-> r.err, offerings |-> offerings]
             ELSE resolveComputeClass(
                      storeOffering(offerings, name, containers[name], r.offering[1]),
                      appInstance, configDefault, defaultCC, defaultCCName,
                      containers, Tail(order), failing)

-----------------------------------------------------------------------------
\* resolveComputeClasses

\* lines 18-29: the name of the default compute class
defaultComputeClass(appInstance, fault) ==
    IF "" \in DOMAIN appInstance.computeClasses
    THEN [err |-> NoErr, name |-> appInstance.computeClasses[""]]
    ELSE GetDefaultComputeClass(fault)

\* mutant: the memory override at "" replaces the whole entry and the class's
\* CPU scaler is lost
defaultOffering_DropsScaler(appInstance, config, defaultCC, cc, def) ==
    LET seeded == [class |-> defaultCC, memory |-> config.workloadMemoryDefault,
                   cpuScaler |-> Nil]
        classed == IF cc # Nil
                   THEN [class |-> seeded.class, memory |-> Some(def),
                         cpuScaler |-> Some(cc[1].cpuScaler)]
                   ELSE seeded
    IN  IF "" \in DOMAIN appInstance.memory
        THEN [class |-> classed.class, memory |-> Some(appInstance.memory[""]),
              cpuScaler |-> Nil]
        ELSE classed

\* lines 31-61: the entry at key "", given the default class name and the
\* class cc found for it (or nil) with its parsed default memory
defaultOffering(appInstance, config, defaultCC, cc, def) ==
    LET seeded == [class |-> defaultCC, memory |-> config.workloadMemoryDefault,
                   cpuScaler |-> Nil]
        classed == IF cc # Nil
                   THEN [class |-> seeded.class, memory |-> Some(def),
                         cpuScaler |-> Some(cc[1].cpuScaler)]
                   ELSE seeded
    IN  IF "" \in DOMAIN appInstance.memory
        THEN [class |-> classed.class, memory |-> Some(appInstance.memory[""]),
              cpuScaler |-> classed.cpuScaler]
        ELSE classed

\* the resolver: offerings is the map before the call; faults the outcomes of
\* the lookups (defaultName, defaultClass: an error or nil; workloads: the
\* workloads whose lookup fails); orderC and orderJ the orders in which the
\* container and job maps are iterated
resolveComputeClasses(offerings, config, appInstance, faults, orderC, orderJ) ==
    LET dn == defaultComputeClass(appInstance, faults.defaultName)
        seeded == Put(offerings, "",
                      [class |-> dn.name, memory |-> config.workloadMemoryDefault,
                       cpuScaler |-> Nil])
        got == GetAsProjectComputeClassInstance(dn.name, faults.defaultClass)
        cc == got.cc
        parsed == IF cc # Nil THEN ParseComputeClassMemoryInternal(cc[1].memory)
                  ELSE [err |-> NoErr, def |-> 0]
        withDefault == Put(offerings, "",
                           defaultOffering(appInstance, config, dn.name, cc, parsed.def))
        c == resolveComputeClass(withDefault, appInstance, config.workloadMemoryDefault,
                                 cc, dn.name, appInstance.containers, orderC,
                                 faults.workloads)
    IN  IF dn.err # NoErr THEN [err |-> dn.err, offerings |-> offerings]
        ELSE IF got.err # NoErr /\ ~IsNotFound(got.err)
        THEN [err |-> got.err, offerings |-> seeded]
        ELSE IF parsed.err # NoErr THEN [err |-> parsed.err, offerings |-> seeded]
        ELSE IF c.err # NoErr THEN c
        ELSE resolveComputeClass(c.offerings, appInstance, config.workloadMemoryDefault,
                                 cc, dn.name, appInstance.jobs, orderJ, faults.workloads)

-----------------------------------------------------------------------------
\* Input values.

Container(scale, memory, sidecars) ==
    [scale |-> scale, memory |-> memory, sidecars |-> sidecars]

\* all maps from a subset of keys to values
PartialMaps(keys, values) == UNION {[S -> values] : S \in SUBSET keys}

\* all sequences over S of length at most n
SeqsUpTo(S, n) == UNION {[1..k -> S] : k \in 0..n}

\* the orders in which a Go map with key set S can be iterated
Orders(S) ==
    {o \in [1..Cardinality(S) -> S] : \A i, j \in 1..Cardinality(S) : o[i] = o[j] => i = j}

\* the compute classes of the cluster
Classes ==
    ("cc-a" :> [name |-> "cc-a", memory |-> "1Gi", cpuScaler |-> 2]) @@
    ("cc-d" :> [name |-> "cc-d", memory |-> "512Mi", cpuScaler |-> 1]) @@
    ("cc-bad" :> [name |-> "cc-bad", memory |-> "lots", cpuScaler |-> 4])

\* an app with one container and nothing else
BaseApp ==
    [computeClasses |-> EmptyMap, memory |-> EmptyMap,
     volumeBindings |-> <<>>, secretBindings |-> <<>>,
     containers |-> ("a" :> Container(Nil, Nil, EmptyMap)),
     jobs |-> EmptyMap, volumes |-> EmptyMap, secrets |-> {}, images |-> {"img"},
     scheduling |-> ("a" :> (("cpu" :> 500) @@ ("memory" :> 512)))]

\* the deployments of the allocation state machine: the base app, the same
\* scaled up, and one whose volume size does not parse
Deployments ==
    {BaseApp,
     [BaseApp EXCEPT !.containers = ("a" :> Container(Some(2), Nil, EmptyMap))],
     [BaseApp EXCEPT !.volumes = ("v" :> [size |-> "big"])]}

Projects == {[enforcedQuota |-> "true"], [enforcedQuota |-> ""]}

\* errors a lookup can end with, other than NotFound
Faults == {NoErr, TransportErr}

AuthorityMessages == {"exceeds project quota", "no quota defined"}

\* the conditions the quota authority writes
AuthorityConditions ==
    {ZeroCondition, [success |-> TRUE, error |-> FALSE, message |-> ""]}
    \cup {[success |-> FALSE, error |-> TRUE, message |-> m] : m \in AuthorityMessages}

\* the grants the quota authority writes for a request: all of it, all of it
\* but half of the CPU, or nothing
Grants(requested) ==
    {requested, [requested EXCEPT !.cpu = requested.cpu \div 2], ZeroResources}

\* op: the step; err: what the handler returned; fetched: whether it looked the
\* QuotaRequest up; emitted: whether it handed a QuotaRequest to resp.Objects;
\* projectErr, getErr: how the lookups of the project and of the request ended
Observed(op, err, fetched, emitted, projectErr, getErr) ==
    [op |-> op, err |-> err, fetched |-> fetched, emitted |-> emitted,
     projectErr |-> projectErr, getErr |-> getErr]

Step(op) == Observed(op, NoErr, FALSE, FALSE, NoErr, NoErr)

-----------------------------------------------------------------------------
\* The allocation state machine: the two handlers of the quota controller, the
\* quota authority, and edits of the project and of the app.

Init ==
    /\ project \in Projects
    /\ app \in Deployments
    /\ quota = NoCondition
    /\ quotaRequest = NoQuotaRequest
    /\ cluster = [classes |-> Classes, defaultCC |-> ""]
    /\ cfg = [workloadMemoryDefault |-> Nil]
    /\ resolvedOfferings = EmptyMap
    /\ last = Step("init")
    /\ runs = 0

\* one call of WaitForAllocation
Wait(projectFault, getFault) ==
    LET r == WaitForAllocation(quota, GetProject(projectFault), GetQuotaRequest(getFault))
    IN  /\ quota' = r.quota
        /\ last' = Observed("WaitForAllocation", r.err, r.fetched, FALSE, projectFault,
                           IF r.fetched THEN GetQuotaRequest(getFault).err ELSE NoErr)
        /\ UNCHANGED <<project, app, quotaRequest, cluster, cfg, resolvedOfferings, runs>>

\* one call of EnsureQuotaRequest, and the desired object applied to the store
Ensure(projectFault) ==
    LET r == EnsureQuotaRequest(quota, GetProject(projectFault), app)
    IN  /\ quota' = r.quota
        /\ quotaRequest' = Apply(r.objects)
        /\ last' = Observed("EnsureQuotaRequest", r.err, FALSE, r.objects # <<>>,
                           projectFault, NoErr)
        /\ UNCHANGED <<project, app, cluster, cfg, resolvedOfferings, runs>>

\* the quota authority writes the status of the stored request
Authority ==
    /\ quotaRequest # NoQuotaRequest
    /\ \E allocated \in Grants(quotaRequest[1].spec), condition \in AuthorityConditions :
          quotaRequest' = Some([quotaRequest[1] EXCEPT !.allocated = allocated,
                                                       !.condition = condition])
    /\ quotaRequest' # quotaRequest
    /\ last' = Step("authority")
    /\ UNCHANGED <<project, app, quota, cluster, cfg, resolvedOfferings, runs>>

\* the operator sets or removes the project's enforced-quota annotation
UpdateProject ==
    /\ project' \in Projects \ {project}
    /\ last' = Step("project")
    /\ UNCHANGED <<app, quota, quotaRequest, cluster, cfg, resolvedOfferings, runs>>

\* the app's expanded spec changes
UpdateApp ==
    /\ app' \in Deployments \ {app}
    /\ last' = Step("app")
    /\ UNCHANGED <<project, quota, quotaRequest, cluster, cfg, resolvedOfferings, runs>>

Next ==
    \/ \E pf \in Faults, gf \in Faults : Wait(pf, gf)
    \/ \E pf \in Faults : Ensure(pf)
    \/ Authority
    \/ UpdateProject
    \/ UpdateApp

Spec == Init /\ [][Next]_vars

\* the same for a tenant that enforces quota throughout
EnforcedInit == Init /\ project.enforcedQuota = "true"

EnforcedNext ==
    \/ \E gf \in Faults : Wait(NoErr, gf)
    \/ Ensure(NoErr)
    \/ Authority
    \/ UpdateApp

EnforcedSpec == EnforcedInit /\ [][EnforcedNext]_vars

\* the reconciliation framework keeps calling WaitForAllocation, and lookups
\* do not fail forever
Tick == Wait(NoErr, NoErr)

LiveSpec == Spec /\ WF_vars(Tick)

-----------------------------------------------------------------------------
\* Properties of the allocation state machine.

Enforced == project.enforcedQuota = "true"

\* the last step was a WaitForAllocation call for an enforced tenant whose two
\* lookups did not fail
Ticked ==
    /\ last.op = "WaitForAllocation"
    /\ Enforced
    /\ last.projectErr = NoErr
    /\ last.getErr \in {NoErr, NotFoundErr}

\* the stored request is granted in full and the authority reports success
Granted ==
    /\ quotaRequest # NoQuotaRequest
    /\ Equals(quotaRequest[1].spec, quotaRequest[1].allocated)
    /\ quotaRequest[1].condition.success

\* C1: for an enforced tenant, the quota condition is success right after a
\* tick that returned no error only if the request exists, its spec.resources
\* equal its allocatedResources and the authority's condition is success.
C1_SuccessOnlyIfGranted ==
    (Ticked /\ last.err = NoErr /\ quota.state = "success") => Granted

\* C2: when the tenant's enforced flag is not set (and the project lookup
\* succeeds), EnsureQuotaRequest emits no object and returns no error, and
\* WaitForAllocation sets the condition to success without fetching a request;
\* neither changes the stored request, whatever it is.
C2_DisabledTouchesNoRequest ==
    [][(~Enforced /\ last'.projectErr = NoErr) =>
         /\ last'.op = "EnsureQuotaRequest" =>
              (~last'.emitted /\ last'.err = NoErr /\ quotaRequest' = quotaRequest
               /\ quota' = quota)
         /\ last'.op = "WaitForAllocation" =>
              (quota' = StatusSuccess /\ ~last'.fetched /\ last'.err = NoErr
               /\ quotaRequest' = quotaRequest)]_vars

\* C2 witness: a tick for a tenant without the flag reported success although
\* a request exists on which the authority reports an error.
C2_Witness ==
    /\ last.op = "WaitForAllocation"
    /\ ~Enforced
    /\ last.projectErr = NoErr
    /\ quotaRequest # NoQuotaRequest
    /\ quotaRequest[1].condition.error
    /\ quota = StatusSuccess

\* C3: if from some point on the tenant is enforced and the request stays
\* granted in full with the authority's condition success, and ticks keep
\* being scheduled, the quota condition becomes success (again and again,
\* whatever set it to something else in between).
C3_PendingResolves ==
    <>[](Enforced /\ Granted) => []<>(quota.state = "success")

\* C3 witness: a tick found the request granted and reported success.
C3_Witness ==
    Ticked /\ Granted /\ quota = StatusSuccess

\* C7 as stated: when the authority's condition reports an error, the tick
\* sets the quota condition to error with the authority's message verbatim.
C7_MessageVerbatim ==
    (Ticked /\ quotaRequest # NoQuotaRequest /\ quotaRequest[1].condition.error)
        => quota = StatusError(quotaRequest[1].condition.message)

\* C7 amended: when the authority's condition reports an error, a tick whose
\* lookups succeed sets the quota condition to error with the message
\* "quota allocation failed: " followed by the authority's message, whether or
\* not spec.resources equals allocatedResources; and a quota condition that is
\* error is still error after every tick made while the authority's condition
\* is error.
C7_ErrorSurfaced ==
    [][(last'.op = "WaitForAllocation" /\ Enforced
        /\ quotaRequest # NoQuotaRequest /\ quotaRequest[1].condition.error) =>
         /\ (last'.projectErr = NoErr /\ last'.getErr = NoErr) =>
              (/\ quota' = StatusError("quota allocation failed: "
                                        \o quotaRequest[1].condition.message)
               /\ last'.err = NoErr)
         /\ quota.state = "error" => quota'.state = "error"]_vars

\* C7 witness: a tick reported the authority's error on a request whose
\* allocation equals what it asks for.
C7_Witness ==
    /\ Ticked
    /\ quotaRequest # NoQuotaRequest
    /\ quotaRequest[1].condition.error
    /\ Equals(quotaRequest[1].spec, quotaRequest[1].allocated)
    /\ quota.state = "error"

\* C8: for an enforced tenant, when the lookup of the request ends NotFound, or
\* the request exists without an authority error and its spec.resources differ
\* from its allocatedResources, the tick sets the quota condition to unknown
\* with the message "waiting for quota allocation" and returns no error.
C8_WaitingIsUnknown ==
    (Ticked /\ (\/ quotaRequest = NoQuotaRequest
                \/ /\ ~quotaRequest[1].condition.error
                   /\ quotaRequest[1].spec # quotaRequest[1].allocated))
        => (quota = StatusUnknown("waiting for quota allocation") /\ last.err = NoErr)

\* C8 witness: a tick reported unknown for a request granted all but half of
\* its CPU (500m asked, 250m allocated) while the authority reports success.
C8_Witness ==
    /\ Ticked
    /\ quotaRequest # NoQuotaRequest
    /\ quotaRequest[1].condition.success
    /\ quotaRequest[1].spec.cpu = 500
    /\ quotaRequest[1].allocated = [quotaRequest[1].spec EXCEPT !.cpu = 250]
    /\ quota.state = "unknown"

\* some declared volume is not bound and its size is neither empty, "0" nor a
\* quantity
UnparseableVolume ==
    \E name \in DOMAIN app.volumes :
        /\ \A i \in DOMAIN app.volumeBindings :
              ~(app.volumeBindings[i].target = name /\ app.volumeBindings[i].volume = "")
        /\ app.volumes[name].size \notin {"", "0", "1Gi", "2Gi", "4Gi"}

\* C15: for an enforced tenant, an EnsureQuotaRequest call on an app with a
\* volume size that cannot be parsed sets the quota condition to error with
\* the parse error, returns that error, submits no request and leaves the
\* stored request as it was.
C15_UnparseableVolume ==
    [][(last'.op = "EnsureQuotaRequest" /\ Enforced /\ last'.projectErr = NoErr
        /\ UnparseableVolume) =>
         /\ quota' = StatusError(ParseErr)
         /\ last'.err = ParseErr
         /\ ~last'.emitted
         /\ quotaRequest' = quotaRequest]_vars

\* C15 witness: the call failed on the volume size "big" while a request
\* submitted for an earlier spec of the app is stored, fully granted.
C15_Witness ==
    /\ last.op = "EnsureQuotaRequest"
    /\ Enforced
    /\ UnparseableVolume
    /\ last.err = ParseErr
    /\ quota = StatusError(ParseErr)
    /\ Granted
    /\ quotaRequest[1].spec.volumes = 0

\* C16: for an enforced tenant, a tick whose lookup of the request fails with
\* an error other than NotFound returns that error and leaves the quota
\* condition (and the stored request) as it was before the tick.
C16_LookupErrorWritesNothing ==
    [][(last'.op = "WaitForAllocation" /\ Enforced /\ last'.projectErr = NoErr
        /\ last'.getErr # NoErr /\ ~IsNotFound(last'.getErr)) =>
         /\ last'.err = last'.getErr
         /\ quota' = quota
         /\ quotaRequest' = quotaRequest]_vars

\* C16 witness: the lookup failed on a tick made after the authority turned a
\* granted request into an error; the condition is still the earlier success.
C16_Witness ==
    /\ last.op = "WaitForAllocation"
    /\ Enforced
    /\ last.getErr = TransportErr
    /\ last.err = TransportErr
    /\ quotaRequest # NoQuotaRequest
    /\ quotaRequest[1].condition.error
    /\ quota = StatusSuccess

\* the values a tick can write when it reads the stored request as it is now
Verdicts ==
    {StatusSuccess, StatusUnknown("waiting for quota allocation")}
    \cup (IF quotaRequest = NoQuotaRequest THEN {}
          ELSE {StatusError("quota allocation failed: " \o quotaRequest[1].condition.message)})

\* C17: every tick for an enforced tenant that returns no error writes one of
\* success, error or unknown, computed from the request as it is now: right
\* after such a tick the quota condition is one of those three values and
\* never what an earlier tick (or nothing) left there; also when spec.resources
\* equal allocatedResources and the authority's condition is neither success
\* nor error.
C17_TickAlwaysWrites ==
    (Ticked /\ last.err = NoErr) => quota \in Verdicts

\* the resources EnsureQuotaRequest aggregates from the app's spec as it is
\* now: a request, or none when the aggregation fails
CurrentFootprint == EnsureQuotaRequest(quota, GetProject(NoErr), app).objects

\* C18: for an enforced tenant, whenever a tick finds the request granted and
\* sets the quota condition to success, the allocatedResources of the stored
\* request equal the resources aggregated from the app's current spec (stated
\* for a spec whose aggregation succeeds).
C18_AllocationCoversFootprint ==
    (Ticked /\ Granted /\ quota = StatusSuccess /\ CurrentFootprint # <<>>) =>
        CurrentFootprint = <<quotaRequest[1].allocated>>

-----------------------------------------------------------------------------
\* Aggregation: EnsureQuotaRequest on apps drawn from bounded sets.

Scales == {Nil} \cup {Some(n) : n \in 0..MaxScale}

\* sidecars carry a scale field of their own, like every container
SidecarChoices == {Container(s, Nil, EmptyMap) : s \in {Nil, Some(MaxScale)}}

ContainerChoices ==
    {Container(s, Nil, sc) : s \in Scales, sc \in PartialMaps({"s"}, SidecarChoices)}

\* the scheduling requirements computed for a workload name ("" for all)
RequirementsOf(name) ==
    CASE name = "" -> ("cpu" :> 100) @@ ("memory" :> 64)
      [] name = "a" -> ("cpu" :> 500) @@ ("memory" :> 512)
      [] name = "s" -> ("cpu" :> 125) @@ ("memory" :> 256)
      [] OTHER -> ("cpu" :> 250)

\* a plain job, and a job with a scale and a sidecar
JobChoices ==
    {Container(Nil, Nil, EmptyMap),
     Container(Some(MaxScale), Nil, "s" :> Container(Nil, Nil, EmptyMap))}

\* no job, the job j, or two jobs
JobMaps ==
    PartialMaps({"j"}, JobChoices)
    \cup {("j" :> Container(Nil, Nil, EmptyMap)) @@ ("k" :> Container(Nil, Nil, EmptyMap))}

\* apps that differ in containers, sidecars, jobs and scheduling requirements
ComputeApps ==
    {[BaseApp EXCEPT !.containers = c, !.jobs = j,
                     !.scheduling = [n \in k |-> RequirementsOf(n)]] :
        c \in PartialMaps({"a", "b"}, ContainerChoices),
        j \in JobMaps,
        k \in SUBSET {"", "a", "s", "j"}}

VolumeChoices == {[size |-> z] : z \in {"", "0", "1Gi", "big"}}

VolumeBindingChoices == [target : {"v", "w"}, volume : {"", "other"}, size : {"", "2Gi"}]

SecretBindingChoices == {<<>>, <<[target |-> "k", secret |-> ""]>>,
                         <<[target |-> "k", secret |-> "other"]>>}

\* apps that differ in volumes, secrets and their bindings
StorageApps ==
    {[BaseApp EXCEPT !.volumes = v, !.volumeBindings = b,
                     !.secrets = {"k"}, !.secretBindings = sb] :
        v \in PartialMaps({"v", "w"}, VolumeChoices),
        b \in SeqsUpTo(VolumeBindingChoices, MaxBindings),
        sb \in SecretBindingChoices}

AggInit ==
    /\ project \in Projects
    /\ app \in ComputeApps \cup StorageApps
    /\ quota = NoCondition
    /\ quotaRequest = NoQuotaRequest
    /\ cluster = [classes |-> Classes, defaultCC |-> ""]
    /\ cfg = [workloadMemoryDefault |-> Nil]
    /\ resolvedOfferings = EmptyMap
    /\ last = Step("init")
    /\ runs = 0

AggNext == \E pf \in Faults : Ensure(pf)

AggSpec == AggInit /\ [][AggNext]_vars

\* the last step was an EnsureQuotaRequest call that submitted a request
Submitted == last.op = "EnsureQuotaRequest" /\ last.emitted

\* the scheduling requests the aggregation reads for a workload name
RequestOf(name, key) ==
    LET r == IF name \in DOMAIN app.scheduling THEN app.scheduling[name]
             ELSE IF "" \in DOMAIN app.scheduling THEN app.scheduling[""]
             ELSE EmptyMap
    IN  IF key \in DOMAIN r THEN r[key] ELSE 0

\* the scale of a container, 1 when unspecified
ScaleOf(c) == IF c.scale = Nil THEN 1 ELSE c.scale[1]

\* the sum in which each sidecar counts once per replica of its parent
PerParentReplica(key) ==
    SumFn([n \in DOMAIN app.containers |->
        ScaleOf(app.containers[n]) *
            (RequestOf(n, key)
             + SumFn([sc \in DOMAIN app.containers[n].sidecars |-> RequestOf(sc, key)]))])

\* no sidecar of the app sets a scale of its own
SidecarsUnscaled ==
    \A n \in DOMAIN app.containers : \A sc \in DOMAIN app.containers[n].sidecars :
        app.containers[n].sidecars[sc].scale = Nil

\* C6: in the submitted request, CPU and memory are summed so that each
\* sidecar contributes its requests once per replica of its parent container
\* (scale n, requests r: n times r); stated for sidecars that set no scale of
\* their own, where the parent's scale is the only one there is.
C6_SidecarPerParentReplica ==
    (Submitted /\ SidecarsUnscaled) =>
        /\ quotaRequest[1].spec.cpu = PerParentReplica("cpu")
        /\ quotaRequest[1].spec.memory = PerParentReplica("memory")

\* C12: the container count of a submitted request is the sum over the
\* top-level containers of their scale, 1 for a container that sets none;
\* sidecars, whatever their number and their own scale, add nothing to it.
C12_ContainerCount ==
    Submitted =>
        quotaRequest[1].spec.containers =
            SumFn([n \in DOMAIN app.containers |-> ScaleOf(app.containers[n])])

\* C12 witness: container a with scale 2 and a sidecar that sets the largest
\* scale of its own, container b without a scale: the count is 3.
C12_Witness ==
    /\ Submitted
    /\ DOMAIN app.containers = {"a", "b"}
    /\ app.containers["a"].scale = Some(2)
    /\ DOMAIN app.containers["a"].sidecars = {"s"}
    /\ app.containers["a"].sidecars["s"].scale = Some(MaxScale)
    /\ app.containers["b"].scale = Nil
    /\ quotaRequest[1].spec.containers = 3

\* the app without its jobs and without their scheduling requirements
WithoutJobs ==
    [app EXCEPT !.jobs = EmptyMap,
                !.scheduling = [n \in DOMAIN app.scheduling \ DOMAIN app.jobs |->
                                   app.scheduling[n]]]

\* C13: jobs add nothing to the CPU and memory sums: the submitted request is
\* the one the same app without its jobs (and without their scheduling
\* requirements) would submit, except for the job count, which is the number
\* of job entries.
C13_JobsOnlyCounted ==
    Submitted =>
        LET alone == EnsureQuotaRequest(NoCondition, GetProject(NoErr), WithoutJobs).objects[1]
        IN  quotaRequest[1].spec = [alone EXCEPT !.jobs = Cardinality(DOMAIN app.jobs)]

\* C13 witness: one unscaled container a (500m, 512Mi) and a job j with a
\* scale, a sidecar and scheduling requirements of its own: the request asks
\* for a's compute only and counts one job.
C13_Witness ==
    /\ Submitted
    /\ DOMAIN app.containers = {"a"}
    /\ app.containers["a"] = Container(Nil, Nil, EmptyMap)
    /\ DOMAIN app.jobs = {"j"}
    /\ app.jobs["j"].scale = Some(MaxScale)
    /\ DOMAIN app.jobs["j"].sidecars = {"s"}
    /\ DOMAIN app.scheduling = {"", "a", "s", "j"}
    /\ quotaRequest[1].spec.cpu = 500
    /\ quotaRequest[1].spec.memory = 512
    /\ quotaRequest[1].spec.jobs = 1

\* the quantity a volume size stands for, nothing for "" and "0"
SizeGi(size) ==
    CASE size = "1Gi" -> 1
      [] size = "2Gi" -> 2
      [] size = "4Gi" -> 4
      [] OTHER -> 0

\* the positions of the bindings that bind the volume to an existing one
BindingsOf(name) ==
    {i \in DOMAIN app.volumeBindings :
        app.volumeBindings[i].target = name /\ app.volumeBindings[i].volume = ""}

\* what C9 says a declared volume contributes: the size of its (first) binding,
\* nothing when that binding carries no size; its own size when it is unbound
StorageOf(name) ==
    IF BindingsOf(name) # {}
    THEN LET i == CHOOSE k \in BindingsOf(name) : \A m \in BindingsOf(name) : k <= m
         IN  SizeGi(app.volumeBindings[i].size)
    ELSE SizeGi(app.volumes[name].size)

-----------------------------------------------------------------------------
\* Resolution: resolveComputeClasses on apps drawn from bounded sets, run
\* again and again on the same input.

\* image-declared memory of a workload, in Mi
ImageMemories == {Nil, Some(300)}

\* a sidecar with an image-declared memory of its own
ResolverSidecars == {Container(Nil, Some(700), EmptyMap)}

\* containers own sidecars by name; two containers may each own a sidecar of
\* the same name
ResolverContainers ==
    {Container(Nil, m, sc) : m \in ImageMemories, sc \in PartialMaps({"s"}, ResolverSidecars)}

ResolverJobs == {Container(Nil, m, EmptyMap) : m \in ImageMemories}

\* the operator's memory override for a workload name ("" for all), in Mi
MemoryOverrideOf(name) ==
    CASE name = "" -> 100
      [] name = "a" -> 200
      [] OTHER -> 900

ComputeClassOverrides ==
    {EmptyMap, "" :> "cc-a", "a" :> "cc-a", "a" :> "cc-bad", "a" :> "cc-none"}

ResolverApps ==
    {[BaseApp EXCEPT !.containers = c, !.jobs = j, !.computeClasses = cc,
                     !.memory = [n \in k |-> MemoryOverrideOf(n)]] :
        c \in PartialMaps({"a", "b"}, ResolverContainers),
        j \in PartialMaps({"j"}, ResolverJobs),
        cc \in ComputeClassOverrides,
        k \in SUBSET {"", "a", "s"}}

NoFaults == [defaultName |-> NoErr, defaultClass |-> NoErr, workloads |-> {}]

\* no lookup fails, or one of them does; the lookup of the default class name
\* can also end NotFound
ResolverFaults ==
    {NoFaults,
     [NoFaults EXCEPT !.defaultName = TransportErr],
     [NoFaults EXCEPT !.defaultName = NotFoundErr],
     [NoFaults EXCEPT !.defaultClass = TransportErr],
     [NoFaults EXCEPT !.workloads = {"a"}],
     [NoFaults EXCEPT !.workloads = {"j"}]}

ResolverInit ==
    /\ project \in {[enforcedQuota |-> ""]}
    /\ app \in ResolverApps
    /\ quota = NoCondition
    /\ quotaRequest = NoQuotaRequest
    /\ cluster \in [classes : {Classes}, defaultCC : {"", "cc-d"}]
    /\ cfg \in [workloadMemoryDefault : {Nil, Some(256)}]
    /\ resolvedOfferings = EmptyMap
    /\ last = Step("init")
    /\ runs = 0

\* one call of resolveComputeClasses
Resolve(faults, orderC, orderJ) ==
    LET r == resolveComputeClasses(resolvedOfferings, cfg, app, faults, orderC, orderJ)
    IN  /\ resolvedOfferings' = r.offerings
        /\ last' = Observed("resolveComputeClasses", r.err, FALSE, FALSE, NoErr, NoErr)
        /\ runs' = IF r.err # NoErr THEN 0
                   ELSE IF runs < MaxRuns THEN runs + 1 ELSE runs
        /\ UNCHANGED <<project, app, quota, quotaRequest, cluster, cfg>>

\* the lookup of the default class name ends NotFound only for a tenant that
\* has no default class configured
ResolverNext ==
    \E f \in ResolverFaults, oc \in Orders(DOMAIN app.containers),
       oj \in Orders(DOMAIN app.jobs) :
          /\ IsNotFound(f.defaultName) => cluster.defaultCC = ""
          /\ Resolve(f, oc, oj)

ResolverSpec == ResolverInit /\ [][ResolverNext]_vars

\* the last step was a resolver run that returned no error
Resolved == last.op = "resolveComputeClasses" /\ last.err = NoErr

\* the containers and jobs of the app, by name
Workloads == [n \in DOMAIN app.containers \cup DOMAIN app.jobs |->
                 IF n \in DOMAIN app.containers THEN app.containers[n] ELSE app.jobs[n]]

Lookup(m, k) == IF k \in DOMAIN m THEN Some(m[k]) ELSE Nil

\* the first present element of a sequence of optional values, if any
RECURSIVE FirstPresent(_)
FirstPresent(sources) ==
    IF sources = <<>> THEN Nil
    ELSE IF Head(sources) # Nil THEN Head(sources)
    ELSE FirstPresent(Tail(sources))

\* the compute class selected for a workload: the one it asks for (its own
\* override, the override for all, the project default) when the cluster has
\* it, else the deployment-wide default class when the cluster has that
SelectedClass(name) ==
    LET all == FirstPresent(<<Lookup(app.computeClasses, ""), Some(cluster.defaultCC)>>)
        own == FirstPresent(<<Lookup(app.computeClasses, name), all>>)
    IN  FirstPresent(<<Lookup(cluster.classes, own[1]), Lookup(cluster.classes, all[1])>>)

\* the default memory of a compute class in Mi
ClassDefaultMemory(cc) ==
    CASE cc = Nil -> Nil
      [] cc # Nil /\ cc[1].memory = "1Gi" -> Some(1024)
      [] cc # Nil /\ cc[1].memory = "512Mi" -> Some(512)
      [] OTHER -> Nil

\* the five memory sources of a workload, highest priority first
MemorySources(name) ==
    <<Lookup(app.memory, name), Lookup(app.memory, ""), Workloads[name].memory,
      ClassDefaultMemory(SelectedClass(name)), cfg.workloadMemoryDefault>>

\* C4: after a run, the memory written for every container and job is the
\* first present source in the order: override for its name, override at "",
\* image-declared memory, default memory of the selected class, global default.
C4_MemoryPriority ==
    Resolved =>
        \A name \in DOMAIN Workloads :
            resolvedOfferings[name].memory = FirstPresent(MemorySources(name))

\* C4 witness: container a has all five sources and got its own override;
\* container b has all but that one and got the override at "".
C4_Witness ==
    /\ Resolved
    /\ DOMAIN app.containers = {"a", "b"}
    /\ \A n \in {"a", "b"} : \A i \in 2..5 : MemorySources(n)[i] # Nil
    /\ MemorySources("a")[1] # Nil
    /\ resolvedOfferings["a"].memory = Some(200)
    /\ resolvedOfferings["b"].memory = Some(100)

\* C5: after a successful run, for every container and each of its sidecars,
\* the entry stored under the sidecar's name is identical to the entry stored
\* under the container's name.
C5_SidecarEqualsParent ==
    Resolved =>
        \A n \in DOMAIN app.containers : \A sc \in DOMAIN app.containers[n].sidecars :
            resolvedOfferings[sc] = resolvedOfferings[n]

\* C10: a run on the output of a successful run, the input unchanged, leaves
\* the resolved offerings as they were, whatever the iteration orders.
C10_Idempotent ==
    [][(runs >= 1 /\ last'.op = "resolveComputeClasses" /\ last'.err = NoErr)
          => resolvedOfferings' = resolvedOfferings]_vars

\* C11: a NotFound result of a compute-class lookup made by the resolver (the
\* default class name, the default class, a workload's class) never fails the
\* resolution: no run returns a NotFound error.
C11_NotFoundNeverFails ==
    last.op = "resolveComputeClasses" => ~IsNotFound(last.err)

\* the memory string of a compute class is a well-formed quantity
WellFormed(cc) == ParseComputeClassMemoryInternal(cc[1].memory).err = NoErr

\* C14: a malformed memory string in a compute class the resolver selects
\* fails the run with a parse error, also when the workload that selected the
\* class has a memory source of higher priority: after a run that returned no
\* error, the class selected for every container and job is well-formed.
C14_MalformedAlwaysFails ==
    Resolved =>
        \A name \in DOMAIN Workloads :
            SelectedClass(name) # Nil => WellFormed(SelectedClass(name))

\* the workload has no memory override of its own, no image-declared memory
\* and no compute class of its own
Undifferentiated(name) ==
    /\ name \notin DOMAIN app.memory
    /\ Workloads[name].memory = Nil
    /\ name \notin DOMAIN app.computeClasses

-----------------------------------------------------------------------------
\* Resolution while the app's workloads change between runs.

\* a container without a sidecar, and one with the sidecar s
ChurnContainers ==
    {Container(Nil, Nil, EmptyMap), Container(Nil, Nil, "s" :> Container(Nil, Nil, EmptyMap))}

\* apps that differ in their containers, sidecars and jobs only
ChurnApps ==
    {[BaseApp EXCEPT !.containers = c, !.jobs = j] :
        c \in PartialMaps({"a", "b"}, ChurnContainers),
        j \in PartialMaps({"j"}, {Container(Nil, Nil, EmptyMap)})}

ChurnInit ==
    /\ project \in {[enforcedQuota |-> ""]}
    /\ app \in ChurnApps
    /\ quota = NoCondition
    /\ quotaRequest = NoQuotaRequest
    /\ cluster \in [classes : {Classes}, defaultCC : {"", "cc-d"}]
    /\ cfg = [workloadMemoryDefault |-> Nil]
    /\ resolvedOfferings = EmptyMap
    /\ last = Step("init")
    /\ runs = 0

\* containers, sidecars or jobs are added to or removed from the expanded spec
UpdateWorkloads ==
    /\ app' \in ChurnApps \ {app}
    /\ last' = Step("app")
    /\ runs' = 0
    /\ UNCHANGED <<project, quota, quotaRequest, cluster, cfg, resolvedOfferings>>

ChurnNext ==
    \/ ResolverNext
    \/ UpdateWorkloads

ChurnSpec == ChurnInit /\ [][ChurnNext]_vars

\* the names of the app's containers and jobs and of their sidecars
WorkloadNames ==
    DOMAIN Workloads \cup UNION {DOMAIN Workloads[n].sidecars : n \in DOMAIN Workloads}

\* C19: after every run that returned no error, whatever was added to or
\* removed from the app before it, the keys of the resolved offerings are ""
\* and the names of the current containers, jobs and sidecars, nothing else.
C19_NoStaleOfferings ==
    Resolved => DOMAIN resolvedOfferings = {""} \cup WorkloadNames

====
